---- MODULE Spec2Model ----
(***************************************************************************)
(* Model of src/realignment/Realignment.py: the intervention policy (ucp), *)
(* intervene, the three concept correctors, sample_trajectory,             *)
(* compute_loss, prepare_datasets, and of main the adapter, the optimizer, *)
(* a batch and an epoch of its loops and the early-stopping bookkeeping.   *)
(*                                                                         *)
(* Numbers.  A concept value is kept in fixed point: the integer v stands  *)
(* for v / Scale, so 0 is 0.0 and Scale is 1.0.  A mask entry is 0 or 1.   *)
(* The denominator is the variable unit: Scale, or tenths where a run's     *)
(* values are given in tenths.  An importance is <<hi, lo, frac>> standing *)
(* for hi * Limb + lo whole units and frac hundredths (the sentinel -1e10  *)
(* does not fit 32 bits): the quotient of ucp truncated to hundredths,     *)
(* which keeps the order and the ties of the quotients on the grids used.  *)
(* Tensors keep their axes: [B, k] is a sequence of rows, [B, T, k] a      *)
(* sequence of sequences of rows.  Concept indices are 1..k here (0..k-1   *)
(* in the source); cluster ids are 0..m-1 as in the source.                *)
(***************************************************************************)
EXTENDS Integers, Sequences, FiniteSets, TLC

\* ---------------------------------------------------------------- bounds
NumConcepts == 2
Scale == 2
MaxMaxInterventions == 3
NumClusters == 2
MaxEpochs == 4
MaxPatience == 2
MaxLoss == 3
NumClasses == 2
MaxSeed == 1
NumBatches == 2

\* eps = 1e-8 of ucp, as its reciprocal
EpsInv == 100000000

Limb == 10 ^ 5

\* the last attempt of prepare_datasets: range(1, 6)
LastAttempt == 5

\* the parameters the corrector holds after its weights are initialised
InitialTheta == 1

VARIABLES
    unit,                         \* the denominator of the run's concept values
    model_type,                   \* config['model']
    input_format,                 \* config['input_format']
    max_interventions,            \* config['max_interventions']
    concept_to_cluster,           \* concept index -> cluster id
    theta,                        \* the corrector's parameters
    predicted_concepts,           \* the caller's tensor passed as `concepts`
    groundtruth_concepts,
    concepts,                     \* the local `concepts` of sample_trajectory
    already_intervened_concepts,
    original_predictions,
    hidden,                       \* hidden (LSTM) / hidden_states (MultiLSTM)
    out,                          \* the last forward step's output
    selected,                     \* concepts_to_intervene of the last intervene
    all_inputs, all_masks, all_original_predictions, all_groundtruths,
    step,                         \* iterations of the intervention loop begun
    concepts_is_callers,          \* the local `concepts` is still the caller's tensor
    epochs,                       \* config['epochs']
    early_stop_patience,          \* config['early_stop_patience']
    val_plan,                     \* average_val_loss of each epoch, in epoch order
    epoch,                        \* the last epoch begun by the loop of main
    best_val_loss,
    early_stop_counter,
    val_losses,
    adapter_path,                 \* config['adapter_path']
    adapter,                      \* the local `adapter` of main
    optimizer,                    \* the local `optimizer` of main
    scheduler,                    \* the local `scheduler` of main
    optimizer_steps,              \* calls of optimizer.step() made so far
    backward_passes,              \* calls of loss.backward() made so far
    adapter_file_exists,          \* os.path.exists(config['adapter_path'])
    saved_model,                  \* the parameters torch.save has written, if any
    seed,                         \* config['data_generation']['seed']
    class_counts,                 \* per attempt: classes in its training labels
    attempt,                      \* the loop variable of prepare_datasets
    data_seed,                    \* the seed of the data generated last, if any
    train_dataset,                \* the seed of the data in the returned datasets
    forward_calls,                \* the forward steps sample_trajectory has made
    theta_at_best,                \* the parameters when best_val_loss was last lowered
    batches_done,                 \* batches of the epoch's loaders already completed
    grads,                        \* the .grad buffers of the parameters
    loss_at,                      \* the parameters the last loss was computed with
    scheduler_steps,              \* calls of scheduler.step() made so far
    replay_out,                   \* `out` of the forward call in compute_loss
    pc

vars == <<unit, model_type, input_format, max_interventions, concept_to_cluster, theta,
          predicted_concepts, groundtruth_concepts, concepts,
          already_intervened_concepts, original_predictions, hidden, out, selected,
          all_inputs, all_masks, all_original_predictions, all_groundtruths,
          step, concepts_is_callers, epochs, early_stop_patience, val_plan, epoch,
          best_val_loss, early_stop_counter, val_losses, adapter_path, adapter,
          optimizer, scheduler, optimizer_steps, backward_passes,
          adapter_file_exists, saved_model, seed, class_counts, attempt, data_seed,
          train_dataset, forward_calls, theta_at_best, batches_done, grads, loss_at,
          scheduler_steps, replay_out, pc>>

\* ------------------------------------------------------------ value sets
Idx == 1 .. NumConcepts
Grid == 0 .. Scale
RowValues == [Idx -> Grid]
BinaryRows == [Idx -> {0, Scale}]
MaskRows == [Idx -> {0, 1}]
ModelTypes == {"Baseline", "LSTM", "MultiLSTM"}
InputFormats == {"original_and_intervened_inplace", "previous_output"}
ClusterIds == 0 .. (NumClusters - 1)
\* concept_to_cluster, up to a renaming of the clusters: a cluster id is first used
\* after every smaller one, so the clusters left empty are the last ones
ClusterAssignments ==
    {f \in [Idx -> ClusterIds] :
        /\ f[1] = 0
        /\ \A i \in Idx \ {1} : \E j \in 1 .. (i - 1) : f[i] <= f[j] + 1}

\* ------------------------------------------------------- intervention policy
Abs(x) == IF x < 0 THEN -x ELSE x

Sentinel == << -Limb, 0, 0 >>

ImpLess(a, b) ==
    \/ a[1] < b[1]
    \/ a[1] = b[1] /\ a[2] < b[2]
    \/ a[1] = b[1] /\ a[2] = b[2] /\ a[3] < b[3]

\* x * j as hi * Limb + lo, for 32-bit x and a digit j
WideTimes(x, j) ==
    << (x \div Limb) * j + ((x % Limb) * j) \div Limb, ((x % Limb) * j) % Limb >>

WideLeq(a, b) == a[1] < b[1] \/ (a[1] = b[1] /\ a[2] <= b[2])

\* one step of long division: the next decimal digit of r / den (r < den) and
\* the remainder after it; the digit is r over a tenth of den or one above
DecimalDigit(r, den) ==
    LET r10 == WideTimes(r, 10)
        low == r \div ((den + 9) \div 10)
        digit == CHOOSE j \in {low, low + 1} : /\ WideLeq(WideTimes(den, j), r10)
                                               /\ ~WideLeq(WideTimes(den, j + 1), r10)
        jd == WideTimes(den, digit)
    IN  [digit |-> digit, rem |-> (r10[1] - jd[1]) * Limb + (r10[2] - jd[2])]

\* the reciprocal as it would be without eps in the denominator (and a zero
\* distance giving the largest finite value)
Reciprocal_no_eps(v) ==
    IF 2 * v = unit
    THEN << Limb, 0, 0 >>
    ELSE LET q == (2 * unit) \div Abs(2 * v - unit)
             d1 == DecimalDigit((2 * unit) % Abs(2 * v - unit), Abs(2 * v - unit))
             d2 == DecimalDigit(d1.rem, Abs(2 * v - unit))
         IN  << 0, q, 10 * d1.digit + d2.digit >>

\* 1.0 / (|c - 0.5| + eps) for c = v / unit, truncated to hundredths
Reciprocal(v) ==
    LET num == 2 * unit * EpsInv
        den == Abs(2 * v - unit) * EpsInv + 2 * unit
        q == num \div den
        d1 == DecimalDigit(num % den, den)
        d2 == DecimalDigit(d1.rem, den)
    IN  << q \div Limb, q % Limb, 10 * d1.digit + d2.digit >>

\* a tensor axis as a stored sequence: every entry computed once
Stored(t) == SubSeq(t, 1, Len(t))

ucp(cs, aic) ==
    Stored([b \in DOMAIN cs |->
        Stored([i \in DOMAIN cs[b] |->
            IF aic[b][i] = 1 THEN Sentinel ELSE Reciprocal(cs[b][i])])])

\* argmax as it would be if ties went to the last maximum
argmax_last(imp) ==
    Stored([b \in DOMAIN imp |->
        LET row == imp[b]
            maxima == {i \in DOMAIN row : \A j \in DOMAIN row : ~ImpLess(row[i], row[j])}
        IN  CHOOSE i \in maxima : \A j \in maxima : i >= j])

\* torch.argmax(importances, dim=1): per row, the first index of the maximum
argmax(imp) ==
    Stored([b \in DOMAIN imp |->
        LET row == imp[b]
            maxima == {i \in DOMAIN row : \A j \in DOMAIN row : ~ImpLess(row[i], row[j])}
        IN  CHOOSE i \in maxima : \A j \in maxima : i <= j])

\* intervene as it would be if it built the mask anew from the selection
intervene_fresh_mask(cs, aic, gt) ==
    LET importances == ucp(cs, aic)
        concepts_to_intervene == argmax(importances)
    IN  [concepts |-> [b \in DOMAIN cs |->
                         [i \in DOMAIN cs[b] |->
                            IF i = concepts_to_intervene[b] THEN gt[b][i] ELSE cs[b][i]]],
         mask |-> [b \in DOMAIN aic |->
                         [i \in DOMAIN aic[b] |->
                            IF i = concepts_to_intervene[b] THEN 1 ELSE 0]],
         selected |-> concepts_to_intervene]

\* intervene: the tensors after the in-place writes, and the selected indices
intervene(cs, aic, gt) ==
    LET importances == ucp(cs, aic)
        concepts_to_intervene == argmax(importances)
    IN  [concepts |-> [b \in DOMAIN cs |->
                         [i \in DOMAIN cs[b] |->
                            IF i = concepts_to_intervene[b] THEN gt[b][i] ELSE cs[b][i]]],
         mask |-> [b \in DOMAIN aic |->
                         [i \in DOMAIN aic[b] |->
                            IF i = concepts_to_intervene[b] THEN 1 ELSE aic[b][i]]],
         selected |-> concepts_to_intervene]

\* ------------------------------------------------------------- tensor helpers
RECURSIVE SumSeq(_)
SumSeq(s) == IF Len(s) = 0 THEN 0 ELSE Head(s) + SumSeq(Tail(s))

\* the blend as it would be without the complement of the mask
Blend_sum(m, a, b) == m * a + b

\* mask * a + (1 - mask) * b
Blend(m, a, b) == m * a + (1 - m) * b

\* tensor.unsqueeze(1): [B, k] -> [B, 1, k];  tensor.squeeze(1): back
Unsqueeze(t) == [b \in DOMAIN t |-> << t[b] >>]
Squeeze(t) == [b \in DOMAIN t |-> t[b][1]]

\* row[idxs]: the entries of row at the listed indices, in list order
Gather(row, idxs) == [j \in 1 .. Len(idxs) |-> row[idxs[j]]]

\* the model input x of forward, by input_format
ModelInput(fmt, inputs, aic, orig) ==
    IF fmt = "original_and_intervened_inplace"
    THEN [b \in DOMAIN inputs |-> [t \in DOMAIN inputs[b] |-> [i \in DOMAIN inputs[b][t] |->
            Blend(aic[b][t][i], inputs[b][t][i], orig[b][t][i])]]]
    ELSE inputs

\* ------------------------------------------------------ the recurrent network
(* nn.LSTM followed by nn.Linear and torch.sigmoid is library code.  What the  *)
(* correctors rely on is kept: the result is a deterministic function of the   *)
(* parameters, the input and the hidden state, rows of a batch do not interact,*)
(* the state is threaded through the time axis, and every output lies in       *)
(* [0, 1].  th stands for the parameters, h for the (h, c) pair of one row.    *)
LstmCell(th, x, h) ==
    LET hid == (h + th + SumSeq(x) + 1) % (Scale + 1)
    IN  [out |-> [i \in DOMAIN x |-> (x[i] + hid + i * th) % (Scale + 1)],
         hid |-> hid]

RECURSIVE LstmRun(_, _, _)
LstmRun(th, xs, h) ==
    IF Len(xs) = 0
    THEN [out |-> << >>, hid |-> h]
    ELSE LET c == LstmCell(th, Head(xs), h)
             r == LstmRun(th, Tail(xs), c.hid)
         IN  [out |-> << c.out >> \o r.out, hid |-> r.hid]

\* ------------------------------------------------------------- the correctors
\* prepare_initial_hidden; Baseline defines none and holds no state
prepare_initial_hidden(mt, batch) ==
    CASE mt = "LSTM" -> [b \in batch |-> 0]
      [] mt = "MultiLSTM" -> [c \in 1 .. NumClusters |-> [b \in batch |-> 0]]
      [] OTHER -> << >>

\* BaselineConceptCorrector.forward
BaselineForward(fmt, inputs, aic, orig) ==
    [b \in DOMAIN inputs |-> [t \in DOMAIN inputs[b] |-> [i \in DOMAIN inputs[b][t] |->
        Blend(aic[b][t][i], inputs[b][t][i], orig[b][t][i])]]]

\* the estimate of LSTMConceptCorrector.forward before the output blend:
\* torch.sigmoid(self.fc(self.lstm(x, hidden))), per row, with the new state
LSTMEstimate(th, fmt, inputs, aic, orig, hid) ==
    LET x == ModelInput(fmt, inputs, aic, orig)
    IN  [b \in DOMAIN x |-> LstmRun(th, x[b], hid[b])]

\* the output blend of LSTMConceptCorrector.forward (line 139)
LSTMBlend(m, inp, orig, est) == Blend(m, inp, est)

\* LSTMConceptCorrector.forward
LSTMForward(th, fmt, inputs, aic, orig, hid) ==
    LET r == LSTMEstimate(th, fmt, inputs, aic, orig, hid)
    IN  [out |-> [b \in DOMAIN inputs |-> [t \in DOMAIN inputs[b] |->
                    [i \in DOMAIN inputs[b][t] |->
                        LSTMBlend(aic[b][t][i], inputs[b][t][i], orig[b][t][i],
                                  r[b].out[t][i])]]],
         hid |-> [b \in DOMAIN inputs |-> r[b].hid]]

\* [c for c in range(input_size) if ...] as it would be with <= for ==
ClusterConceptIndices_upto(c2c, cluster_id) ==
    SelectSeq([i \in 1 .. Len(c2c) |-> i], LAMBDA i : c2c[i] <= cluster_id)

\* [c for c in range(input_size) if concept_to_cluster[c] == cluster_id]
ClusterConceptIndices(c2c, cluster_id) ==
    SelectSeq([i \in 1 .. Len(c2c) |-> i], LAMBDA i : c2c[i] = cluster_id)

\* the place of concept i in its cluster's index list
ClusterPosition(c2c, i) ==
    LET idx == ClusterConceptIndices(c2c, c2c[i])
    IN  CHOOSE j \in 1 .. Len(idx) : idx[j] = i

\* the loop of MultiLSTMConceptCorrector.forward up to the sigmoid: per cluster
\* and row, the sub-model's estimate on the cluster's slice of x and its new
\* state; a cluster without concepts is skipped and keeps its state
MultiLSTMEstimate(th, fmt, c2c, inputs, aic, orig, hidden_states) ==
    LET x == ModelInput(fmt, inputs, aic, orig)
    IN  [c \in ClusterIds |-> [b \in DOMAIN x |->
            LET idx == ClusterConceptIndices(c2c, c)
            IN  IF Len(idx) = 0
                THEN [out |-> << >>, hid |-> hidden_states[c + 1][b]]
                ELSE LstmRun(th + c, [t \in DOMAIN x[b] |-> Gather(x[b][t], idx)],
                             hidden_states[c + 1][b])]]

\* the output blend of one cluster in MultiLSTMConceptCorrector.forward
\* (lines 202-203)
ClusterBlend(m, inp, orig, fc_out) == Blend(m, orig, fc_out)

\* an output buffer that would start as a copy of x
clone_of(v) == v

\* an entry of output = torch.zeros_like(x) (line 193) that no cluster writes
zeros_like(v) == 0

\* MultiLSTMConceptCorrector.forward
MultiLSTMForward(th, fmt, c2c, inputs, aic, orig, hidden_states) ==
    LET r == MultiLSTMEstimate(th, fmt, c2c, inputs, aic, orig, hidden_states)
        x == ModelInput(fmt, inputs, aic, orig)
    IN  [out |-> [b \in DOMAIN inputs |-> [t \in DOMAIN inputs[b] |->
                    [i \in DOMAIN inputs[b][t] |->
                        IF c2c[i] \in ClusterIds
                        THEN ClusterBlend(aic[b][t][i], inputs[b][t][i], orig[b][t][i],
                                          r[c2c[i]][b].out[t][ClusterPosition(c2c, i)])
                        ELSE zeros_like(x[b][t][i])]]],
         hid |-> [c \in 1 .. NumClusters |-> [b \in DOMAIN inputs |-> r[c - 1][b].hid]]]

\* positional arguments forward_single_timestep requires (self aside) ...
ArgsRequired(mt) == 4
\* ... and those the call sites of sample_trajectory pass
ArgsPassed(mt) == IF mt = "Baseline" THEN 3 ELSE 4
\* Python raises TypeError on a call that misses a required positional argument
CallRaises(mt) == ArgsPassed(mt) < ArgsRequired(mt)

\* forward_single_timestep of the three correctors
forward_single_timestep(mt, th, fmt, c2c, inputs, aic, orig, hid) ==
    LET i3 == Unsqueeze(inputs)
        a3 == Unsqueeze(aic)
        o3 == Unsqueeze(orig)
    IN  CASE mt = "LSTM" ->
               LET r == LSTMForward(th, fmt, i3, a3, o3, hid)
               IN  [out |-> Squeeze(r.out), hid |-> r.hid]
          [] mt = "MultiLSTM" ->
               LET r == MultiLSTMForward(th, fmt, c2c, i3, a3, o3, hid)
               IN  [out |-> Squeeze(r.out), hid |-> r.hid]
          [] OTHER ->
               [out |-> Squeeze(BaselineForward(fmt, i3, a3, o3)), hid |-> hid]

\* a forward that would run only the sub-models of the clusters in the hint
RecomputedClusters_hinted(selected_cluster_ids) ==
    IF selected_cluster_ids = << >>
    THEN ClusterIds
    ELSE {selected_cluster_ids[j] : j \in DOMAIN selected_cluster_ids} \cap ClusterIds

\* the clusters whose sub-model a forward step runs: forward_single_timestep
\* takes the hint and calls self.forward without it, and forward loops over
\* range(self.m_clusters)
RecomputedClusters(selected_cluster_ids) == ClusterIds

\* MultiLSTMConceptCorrector.forward_single_timestep with its two optional
\* arguments (<< >> for None)
MultiLSTM_forward_single_timestep(th, fmt, c2c, inputs, aic, orig, hidden_states, selected_clusters, selected_cluster_ids) ==
    LET r == forward_single_timestep("MultiLSTM", th, fmt, c2c, inputs, aic, orig,
                                     hidden_states)
        run == RecomputedClusters(selected_cluster_ids)
    IN  [out |-> [b \in DOMAIN inputs |-> [i \in DOMAIN inputs[b] |->
                    IF c2c[i] \in ClusterIds \ run THEN 0 ELSE r.out[b][i]]],
         hid |-> [c \in 1 .. NumClusters |->
                    IF (c - 1) \in run THEN r.hid[c] ELSE hidden_states[c]]]

\* torch.argmax of a row of 0/1 values: the first 1, or the first place
first_one(row) ==
    IF \E i \in DOMAIN row : row[i] = 1
    THEN CHOOSE i \in DOMAIN row : row[i] = 1 /\ \A j \in 1 .. i - 1 : row[j] # 1
    ELSE 1

\* lines 261-263: per row, the cluster of the first concept that differs from
\* the original prediction
selected_clusters_of(c2c, cs, orig) ==
    [b \in DOMAIN cs |->
        c2c[first_one([i \in DOMAIN cs[b] |-> IF cs[b][i] # orig[b][i] THEN 1 ELSE 0])]]

\* torch.unique(t).tolist(): the distinct values in ascending order
RECURSIVE unique(_)
unique(t) ==
    LET vals == {t[j] : j \in DOMAIN t}
    IN  IF vals = {} THEN << >>
        ELSE LET lo == CHOOSE v \in vals : \A w \in vals : v <= w
             IN  << lo >> \o unique(SelectSeq(t, LAMBDA v : v # lo))

\* ------------------------------------------------------------ sample_trajectory
configVars == <<unit, model_type, input_format, max_interventions, concept_to_cluster, theta>>
trainVars == <<epochs, early_stop_patience, val_plan, epoch, best_val_loss,
               early_stop_counter, val_losses>>

setupVars == <<adapter_path, adapter, optimizer, scheduler, optimizer_steps,
               backward_passes, adapter_file_exists, saved_model>>
dataVars == <<seed, class_counts, attempt, data_seed, train_dataset>>
callVars == <<forward_calls>>
epochVars == <<theta_at_best, batches_done, grads, loss_at, scheduler_steps, replay_out>>

\* float('inf'): above every loss
Infinity == MaxLoss + 1

\* the training loop of main has not been entered
TrainingIdle ==
    /\ epochs = 0
    /\ early_stop_patience = 0
    /\ val_plan = << >>
    /\ epoch = 0
    /\ best_val_loss = Infinity
    /\ early_stop_counter = 0
    /\ val_losses = << >>

\* main has not reached the adapter and the optimizer
SetupIdle ==
    /\ adapter_path = "None"
    /\ adapter = "None"
    /\ optimizer = "unset"
    /\ scheduler = "unset"
    /\ optimizer_steps = 0
    /\ backward_passes = 0
    /\ adapter_file_exists = FALSE
    /\ saved_model = << >>

\* prepare_datasets is not being run
DataIdle ==
    /\ seed = 0
    /\ class_counts = << >>
    /\ attempt = 0
    /\ data_seed = << >>
    /\ train_dataset = << >>

\* sample_trajectory has made no forward step
CallsIdle == forward_calls = << >>

\* no epoch of main has ended, and the first batch of one has done nothing yet
EpochIdle ==
    /\ theta_at_best = << >>
    /\ batches_done = 0
    /\ grads = 0
    /\ loss_at = << >>
    /\ scheduler_steps = 0
    /\ replay_out = << >>

\* a call of sample_trajectory on a one-row batch, before its first statement
Init ==
    /\ unit = Scale
    /\ model_type \in ModelTypes
    /\ input_format \in InputFormats
    /\ max_interventions \in 0 .. MaxMaxInterventions
    /\ concept_to_cluster \in
          IF model_type = "MultiLSTM" THEN ClusterAssignments ELSE {[i \in Idx |-> 0]}
    /\ theta = InitialTheta
    /\ predicted_concepts \in {<< r >> : r \in RowValues}
    /\ groundtruth_concepts \in {<< r >> : r \in BinaryRows}
    /\ concepts = predicted_concepts
    /\ concepts_is_callers = TRUE
    /\ already_intervened_concepts = << >>
    /\ original_predictions = << >>
    /\ hidden = prepare_initial_hidden(model_type, DOMAIN predicted_concepts)
    /\ out = << >>
    /\ selected = << >>
    /\ all_inputs = << >>
    /\ all_masks = << >>
    /\ all_original_predictions = << >>
    /\ all_groundtruths = << >>
    /\ step = 0
    /\ TrainingIdle
    /\ CallsIdle
    /\ EpochIdle
    /\ SetupIdle
    /\ DataIdle
    /\ pc = "start"

\* one call of forward_single_timestep by sample_trajectory on its locals; the
\* two optional arguments go to MultiLSTM only
ForwardStep(sel, ids) ==
    IF model_type = "MultiLSTM"
    THEN MultiLSTM_forward_single_timestep(theta, input_format, concept_to_cluster,
             concepts, already_intervened_concepts, original_predictions, hidden,
             sel, ids)
    ELSE forward_single_timestep(model_type, theta, input_format, concept_to_cluster,
             concepts, already_intervened_concepts, original_predictions, hidden)

\* what a forward step was given and what it returned
CallRecord(ids, r) ==
    [inputs |-> concepts, mask |-> already_intervened_concepts,
     original |-> original_predictions, hidden |-> hidden,
     selected_cluster_ids |-> ids, out |-> r.out, hid |-> r.hid]

\* lines 223-238: the mask, the copy of the prediction, snapshot 0
Begin ==
    /\ pc = "start"
    /\ already_intervened_concepts' =
          [b \in DOMAIN concepts |-> [i \in DOMAIN concepts[b] |-> 0]]
    /\ original_predictions' = concepts
    /\ all_inputs' = Append(all_inputs, concepts)
    /\ all_masks' = Append(all_masks, already_intervened_concepts')
    /\ all_original_predictions' = Append(all_original_predictions, concepts)
    /\ all_groundtruths' = Append(all_groundtruths, groundtruth_concepts)
    /\ pc' = "warmup"
    /\ UNCHANGED <<configVars, predicted_concepts, groundtruth_concepts, concepts,
                   concepts_is_callers, hidden, out, selected, step>>
    /\ UNCHANGED trainVars
    /\ UNCHANGED setupVars
    /\ UNCHANGED dataVars
    /\ UNCHANGED callVars
    /\ UNCHANGED epochVars

\* lines 239-251: the forward step before any intervention; concepts = out
Warmup ==
    /\ pc = "warmup"
    /\ IF CallRaises(model_type)
       THEN /\ pc' = "raised"
            /\ UNCHANGED <<out, hidden, concepts, concepts_is_callers, forward_calls>>
       ELSE LET r == ForwardStep(<< >>, << >>)
            IN  /\ out' = r.out
                /\ hidden' = r.hid
                /\ concepts' = r.out
                /\ concepts_is_callers' = FALSE
                /\ forward_calls' = Append(forward_calls, CallRecord(<< >>, r))
                /\ pc' = "loop"
    /\ UNCHANGED <<configVars, predicted_concepts, groundtruth_concepts,
                   already_intervened_concepts, original_predictions, selected,
                   all_inputs, all_masks, all_original_predictions, all_groundtruths,
                   step>>
    /\ UNCHANGED trainVars
    /\ UNCHANGED setupVars
    /\ UNCHANGED dataVars
    /\ UNCHANGED epochVars

\* a list entry appended without a copy: it is the live tensor, and shows what
\* is written to it in place
detach_alias(recorded, live) == live

\* tensor.detach().clone() (lines 236, 257): the appended entry has storage of
\* its own, so it holds what was recorded whatever is later written in place
\* to `live`, the tensor it was copied from
detach_clone(recorded, live) == recorded

\* an in-place write that reaches the caller's tensor whatever the local names
written_through(is_callers, written, callers) == written

\* the caller's tensor after intervene has written `written` in place to the
\* local `concepts` (lines 77-78): the write shows in the caller's tensor only
\* while the local still names it, which `concepts = out` (line 251) ends
written_in_place(is_callers, written, callers) ==
    IF is_callers THEN written ELSE callers

\* the iterations the loop of line 252 makes: range(max_interventions)
LoopBound(max_int, k) == max_int

\* lines 252-259: one intervene (in place) and the snapshot after it.  The mask
\* is one tensor from line 233 on, written in place by every intervene; the
\* local `concepts` is a new tensor after every forward step of a recurrent
\* variant, so no earlier entry of all_inputs is the tensor written here.
LoopIntervene ==
    /\ pc = "loop"
    /\ step < LoopBound(max_interventions, NumConcepts)
    /\ LET r == intervene(concepts, already_intervened_concepts, groundtruth_concepts)
       IN  /\ concepts' = r.concepts
           /\ predicted_concepts' =
                 written_in_place(concepts_is_callers, r.concepts, predicted_concepts)
           /\ already_intervened_concepts' = r.mask
           /\ selected' = r.selected
           /\ all_inputs' = Append(all_inputs, r.concepts)
           /\ all_masks' = Append([t \in DOMAIN all_masks |->
                                       detach_clone(all_masks[t], r.mask)], r.mask)
    /\ all_original_predictions' = Append(all_original_predictions, original_predictions)
    /\ all_groundtruths' = Append(all_groundtruths, groundtruth_concepts)
    /\ step' = step + 1
    /\ pc' = "forward"
    /\ UNCHANGED <<configVars, groundtruth_concepts, original_predictions, hidden, out,
                   concepts_is_callers>>
    /\ UNCHANGED trainVars
    /\ UNCHANGED setupVars
    /\ UNCHANGED dataVars
    /\ UNCHANGED callVars
    /\ UNCHANGED epochVars

\* lines 260-277: the forward step after an intervention; the recurrent variants
\* take its output as the next concepts, Baseline does not
LoopForward ==
    /\ pc = "forward"
    /\ IF CallRaises(model_type)
       THEN /\ pc' = "raised"
            /\ UNCHANGED <<out, hidden, concepts, concepts_is_callers, forward_calls>>
       ELSE LET sel == IF model_type = "MultiLSTM"
                       THEN selected_clusters_of(concept_to_cluster, concepts,
                                                 original_predictions)
                       ELSE << >>
                r == ForwardStep(sel, unique(sel))
            IN  /\ out' = r.out
                /\ hidden' = r.hid
                /\ forward_calls' = Append(forward_calls, CallRecord(unique(sel), r))
                /\ concepts' = IF model_type = "Baseline" THEN concepts ELSE r.out
                /\ concepts_is_callers' =
                      IF model_type = "Baseline" THEN concepts_is_callers ELSE FALSE
                /\ pc' = "loop"
    /\ UNCHANGED <<configVars, predicted_concepts, groundtruth_concepts,
                   already_intervened_concepts, original_predictions, selected,
                   all_inputs, all_masks, all_original_predictions, all_groundtruths,
                   step>>
    /\ UNCHANGED trainVars
    /\ UNCHANGED setupVars
    /\ UNCHANGED dataVars
    /\ UNCHANGED epochVars

\* lines 278-284: the loop is over; the lists are stacked and returned
Finish ==
    /\ pc = "loop"
    /\ step >= LoopBound(max_interventions, NumConcepts)
    /\ pc' = "done"
    /\ UNCHANGED <<configVars, predicted_concepts, groundtruth_concepts, concepts,
                   concepts_is_callers, already_intervened_concepts,
                   original_predictions, hidden, out, selected, all_inputs, all_masks,
                   all_original_predictions, all_groundtruths, step>>
    /\ UNCHANGED trainVars
    /\ UNCHANGED setupVars
    /\ UNCHANGED dataVars
    /\ UNCHANGED callVars
    /\ UNCHANGED epochVars

Next == Begin \/ Warmup \/ LoopIntervene \/ LoopForward \/ Finish

Spec == Init /\ [][Next]_vars

\* ------------------------------------------- one batch of the loops of main
\* the parameters of the model torch.load returns for the adapter
AdapterTheta == 2

\* a batch of the training or validation loop of main (lines 446, 477) for a
\* trainable variant, with or without an adapter; the adapter is a corrector of
\* the class of concept_corrector, as its call with initial_hidden requires
InitBatch ==
    /\ unit = Scale
    /\ model_type \in {"LSTM", "MultiLSTM"}
    /\ input_format \in InputFormats
    /\ max_interventions \in 0 .. 1
    /\ concept_to_cluster \in
          IF model_type = "MultiLSTM" THEN ClusterAssignments ELSE {[i \in Idx |-> 0]}
    /\ theta = InitialTheta
    /\ adapter \in {"None", "loaded"}
    /\ adapter_path = IF adapter = "None" THEN "None" ELSE "adapter.pth"
    /\ optimizer = "Adam"
    /\ scheduler = "StepLR"
    /\ optimizer_steps = 0
    /\ backward_passes = 0
    /\ adapter_file_exists = (adapter = "loaded")
    /\ saved_model = << >>
    /\ DataIdle
    /\ predicted_concepts \in {<< r >> : r \in RowValues}
    /\ groundtruth_concepts \in {<< g >> : g \in BinaryRows}
    /\ concepts = << >>
    /\ concepts_is_callers = TRUE
    /\ already_intervened_concepts = << >>
    /\ original_predictions = << >>
    /\ hidden = << >>
    /\ out = << >>
    /\ selected = << >>
    /\ all_inputs = << >>
    /\ all_masks = << >>
    /\ all_original_predictions = << >>
    /\ all_groundtruths = << >>
    /\ step = 0
    /\ TrainingIdle
    /\ CallsIdle
    /\ EpochIdle
    /\ pc = "batch"

\* lines 448-451, 478-481: initial_hidden = prepare_initial_hidden(...)
PrepareHidden ==
    /\ pc = "batch"
    /\ hidden' = prepare_initial_hidden(model_type, DOMAIN predicted_concepts)
    /\ pc' = "adapter_pass"
    /\ UNCHANGED <<configVars, predicted_concepts, groundtruth_concepts, concepts,
                   concepts_is_callers, already_intervened_concepts,
                   original_predictions, out, selected, all_inputs, all_masks,
                   all_original_predictions, all_groundtruths, step>>
    /\ UNCHANGED trainVars
    /\ UNCHANGED setupVars
    /\ UNCHANGED dataVars
    /\ UNCHANGED callVars
    /\ UNCHANGED epochVars

\* lines 452-466, 484-498: with an adapter, its forward step on the prediction
\* with a zero mask and initial_hidden; then the call of compute_loss and of
\* sample_trajectory with the prediction and initial_hidden.  The LSTM step
\* returns a new state, which is dropped; the MultiLSTM step stores each
\* cluster's new state into the list it was given (line 205), and that list is
\* initial_hidden.
AdapterPass ==
    /\ pc = "adapter_pass"
    /\ IF adapter = "None"
       THEN /\ concepts' = predicted_concepts
            /\ UNCHANGED <<predicted_concepts, hidden>>
       ELSE LET zeros == [b \in DOMAIN predicted_concepts |-> [i \in Idx |-> 0]]
                r == forward_single_timestep(model_type, AdapterTheta, input_format,
                         concept_to_cluster, predicted_concepts, zeros,
                         predicted_concepts, hidden)
            IN  /\ predicted_concepts' = r.out
                /\ concepts' = r.out
                /\ hidden' = IF model_type = "MultiLSTM" THEN r.hid ELSE hidden
    /\ pc' = "start"
    /\ UNCHANGED <<configVars, groundtruth_concepts, concepts_is_callers,
                   already_intervened_concepts, original_predictions, out, selected,
                   all_inputs, all_masks, all_original_predictions, all_groundtruths,
                   step>>
    /\ UNCHANGED trainVars
    /\ UNCHANGED setupVars
    /\ UNCHANGED dataVars
    /\ UNCHANGED callVars
    /\ UNCHANGED epochVars


\* concept_corrector.forward of the three classes, with the arguments of its
\* signature; Baseline returns the output alone and holds no state
forward(mt, th, fmt, c2c, inputs, aic, orig, hid) ==
    CASE mt = "LSTM" -> LSTMForward(th, fmt, inputs, aic, orig, hid)
      [] mt = "MultiLSTM" -> MultiLSTMForward(th, fmt, c2c, inputs, aic, orig, hid)
      [] OTHER -> [out |-> BaselineForward(fmt, inputs, aic, orig), hid |-> hid]

\* torch.stack(list, dim=1): the list over timesteps becomes the time axis
Stack(list) == [b \in DOMAIN list[1] |-> [t \in DOMAIN list |-> list[t][b]]]

\* the body of the training loop with the optimizer step before backward
TrainingBody_step_first == << "zero_grad", "batch", "optimizer_step", "backward" >>

\* the statements of the training loop's body (lines 446-469) in order; "batch"
\* stands for lines 448-466, from prepare_initial_hidden to compute_loss
TrainingBody == << "zero_grad", "batch", "backward", "optimizer_step" >>

\* the statements of the validation loop's body (lines 476-499)
ValidationBody == << "batch" >>

\* the body the epoch is in after n batches: train_loader and val_loader give
\* NumBatches batches each
Body(n) == IF n < NumBatches THEN TrainingBody ELSE ValidationBody

\* where control goes after statement stmt of the current body: to the next
\* statement, or out of the body to the next batch, to scheduler.step() after
\* the last training batch, to the end of the epoch after the last validation
\* batch
StatementAfter(n, stmt) ==
    LET body == Body(n)
        i == CHOOSE j \in DOMAIN body : body[j] = stmt
    IN  IF i < Len(body) THEN body[i + 1]
        ELSE IF n + 1 = NumBatches THEN "scheduler"
        ELSE IF n + 1 = 2 * NumBatches THEN "epoch_end"
        ELSE "load"

\* the batches completed once statement stmt has run
BatchesAfter(n, stmt) ==
    IF Body(n)[Len(Body(n))] = stmt THEN n + 1 ELSE n

\* lines 293-300 of compute_loss: the corrector's forward on the stacked
\* snapshots from a fresh hidden state (LSTM is given None, which nn.LSTM takes
\* as zeros), and the loss of its output
Replay ==
    /\ pc = "done"
    /\ LET fresh == prepare_initial_hidden(model_type, DOMAIN all_inputs[1])
           r == forward(model_type, theta, input_format, concept_to_cluster,
                        Stack(all_inputs), Stack(all_masks),
                        Stack(all_original_predictions), fresh)
       IN  replay_out' = r.out
    /\ loss_at' = << theta >>
    /\ pc' = StatementAfter(batches_done, "batch")
    /\ batches_done' = BatchesAfter(batches_done, "batch")
    /\ UNCHANGED <<theta_at_best, grads, scheduler_steps>>
    /\ UNCHANGED <<configVars, predicted_concepts, groundtruth_concepts, concepts,
                   concepts_is_callers, already_intervened_concepts,
                   original_predictions, hidden, out, selected, all_inputs, all_masks,
                   all_original_predictions, all_groundtruths, step>>
    /\ UNCHANGED trainVars
    /\ UNCHANGED setupVars
    /\ UNCHANGED dataVars
    /\ UNCHANGED callVars

NextBatch ==
    PrepareHidden \/ AdapterPass \/ Begin \/ Warmup \/ LoopIntervene \/ LoopForward
        \/ Finish \/ Replay

SpecBatch == InitBatch /\ [][NextBatch]_vars


\* ------------------------------------------------------- intervene on its own
\* no trajectory is being sampled
TrajectoryIdle ==
    /\ input_format = "original_and_intervened_inplace"
    /\ max_interventions = 0
    /\ concept_to_cluster = [i \in Idx |-> 0]
    /\ theta = InitialTheta
    /\ original_predictions = << >>
    /\ hidden = << >>
    /\ out = << >>
    /\ all_inputs = << >>
    /\ all_masks = << >>
    /\ all_original_predictions = << >>
    /\ all_groundtruths = << >>
    /\ step = 0
    /\ concepts_is_callers = TRUE

\* a call of intervene on a batch of two rows: any concepts, mask and ground
\* truth in the first row; in the second the first row's concepts shifted
\* round the grid by any amount, nothing intervened yet and the complementary
\* ground truth.  predicted_concepts keeps the concepts as they were passed.
InitIntervene ==
    /\ unit = Scale
    /\ model_type = "LSTM"
    /\ concepts \in {<< r, [i \in Idx |-> (r[i] + d) % (Scale + 1)] >> :
                        r \in RowValues, d \in Grid}
    /\ already_intervened_concepts \in {<< m, [i \in Idx |-> 0] >> : m \in MaskRows}
    /\ groundtruth_concepts \in {<< g, [i \in Idx |-> Scale - g[i]] >> : g \in BinaryRows}
    /\ predicted_concepts = concepts
    /\ selected = << >>
    /\ TrajectoryIdle
    /\ TrainingIdle
    /\ CallsIdle
    /\ EpochIdle
    /\ SetupIdle
    /\ DataIdle
    /\ pc = "call"

\* lines 72-80
CallIntervene ==
    /\ pc = "call"
    /\ LET r == intervene(concepts, already_intervened_concepts, groundtruth_concepts)
       IN  /\ concepts' = r.concepts
           /\ already_intervened_concepts' = r.mask
           /\ selected' = r.selected
    /\ pc' = "returned"
    /\ UNCHANGED <<configVars, predicted_concepts, groundtruth_concepts,
                   original_predictions, hidden, out, all_inputs, all_masks,
                   all_original_predictions, all_groundtruths, step,
                   concepts_is_callers>>
    /\ UNCHANGED trainVars
    /\ UNCHANGED setupVars
    /\ UNCHANGED dataVars
    /\ UNCHANGED callVars
    /\ UNCHANGED epochVars

NextIntervene == CallIntervene

SpecIntervene == InitIntervene /\ [][NextIntervene]_vars

\* -------------------------------------------- intervene on rows of four tenths
\* concepts [0.5, 0.9, 0.1, 0.5] and ground truth [1, 0, 1, 0], in tenths
ScenarioConcepts == << 5, 9, 1, 5 >>
ScenarioGroundtruth == << 10, 0, 10, 0 >>

\* a call of intervene on one row of four concepts given in tenths: any row of
\* the values 0.1, 0.5 and 0.9, nothing intervened yet, the ground truth
\* [1, 0, 1, 0] or its complement
InitScenario ==
    /\ unit = 10
    /\ model_type = "LSTM"
    /\ concepts \in {<< r >> : r \in [DOMAIN ScenarioConcepts ->
                                        {ScenarioConcepts[i] : i \in DOMAIN ScenarioConcepts}]}
    /\ already_intervened_concepts = << [i \in DOMAIN ScenarioConcepts |-> 0] >>
    /\ groundtruth_concepts \in
          {<< ScenarioGroundtruth >>,
           << [i \in DOMAIN ScenarioGroundtruth |-> unit - ScenarioGroundtruth[i]] >>}
    /\ predicted_concepts = concepts
    /\ selected = << >>
    /\ TrajectoryIdle
    /\ TrainingIdle
    /\ CallsIdle
    /\ EpochIdle
    /\ SetupIdle
    /\ DataIdle
    /\ pc = "call"

NextScenario == CallIntervene

SpecScenario == InitScenario /\ [][NextScenario]_vars

\* ------------------------------------------------------- forward on its own
\* the two ground-truth rows used here: every concept absent, every one present
UniformRows == {[i \in Idx |-> v] : v \in {0, Scale}}

\* a call of forward on one row and one timestep: any corrector, any
\* concept_to_cluster with entries in range(m_clusters), any original prediction
\* and mask, the masked inputs holding the ground truth, a zero hidden state
InitForward ==
    /\ unit = Scale
    /\ model_type \in ModelTypes
    /\ input_format \in InputFormats
    /\ concept_to_cluster \in
          IF model_type = "MultiLSTM" THEN [Idx -> ClusterIds] ELSE {[i \in Idx |-> 0]}
    /\ theta = InitialTheta
    /\ original_predictions \in {<< r >> : r \in RowValues}
    /\ already_intervened_concepts \in {<< m >> : m \in MaskRows}
    /\ groundtruth_concepts \in {<< g >> : g \in UniformRows}
    /\ concepts = << [i \in Idx |->
                        IF already_intervened_concepts[1][i] = 1
                        THEN groundtruth_concepts[1][i]
                        ELSE original_predictions[1][i]] >>
    /\ predicted_concepts = original_predictions
    /\ hidden = prepare_initial_hidden(model_type, DOMAIN original_predictions)
    /\ max_interventions = 0
    /\ out = << >>
    /\ selected = << >>
    /\ all_inputs = << >>
    /\ all_masks = << >>
    /\ all_original_predictions = << >>
    /\ all_groundtruths = << >>
    /\ step = 0
    /\ concepts_is_callers = TRUE
    /\ TrainingIdle
    /\ CallsIdle
    /\ EpochIdle
    /\ SetupIdle
    /\ DataIdle
    /\ pc = "forward_call"

\* forward on the [1, 1, k] tensors of the row
CallForward ==
    /\ pc = "forward_call"
    /\ LET r == forward(model_type, theta, input_format, concept_to_cluster,
                        Unsqueeze(concepts), Unsqueeze(already_intervened_concepts),
                        Unsqueeze(original_predictions), hidden)
       IN  /\ out' = Squeeze(r.out)
           /\ hidden' = r.hid
    /\ pc' = "forward_returned"
    /\ UNCHANGED <<configVars, predicted_concepts, groundtruth_concepts, concepts,
                   already_intervened_concepts, original_predictions, selected,
                   all_inputs, all_masks, all_original_predictions, all_groundtruths,
                   step, concepts_is_callers>>
    /\ UNCHANGED trainVars
    /\ UNCHANGED setupVars
    /\ UNCHANGED dataVars
    /\ UNCHANGED callVars
    /\ UNCHANGED epochVars

NextForward == CallForward

SpecForward == InitForward /\ [][NextForward]_vars

\* cluster ids outside range(m_clusters)
OutOfRangeIds == {-1, NumClusters}

\* a MultiLSTM corrector built with any concept_to_cluster list, ids outside
\* range(m_clusters) included, before a call of forward
InitForwardAny ==
    /\ unit = Scale
    /\ model_type = "MultiLSTM"
    /\ input_format \in InputFormats
    /\ concept_to_cluster \in [Idx -> ClusterIds \cup OutOfRangeIds]
    /\ theta = InitialTheta
    /\ original_predictions \in {<< r >> : r \in RowValues}
    /\ already_intervened_concepts \in {<< m >> : m \in MaskRows}
    /\ groundtruth_concepts \in {<< g >> : g \in UniformRows}
    /\ concepts = << [i \in Idx |->
                        IF already_intervened_concepts[1][i] = 1
                        THEN groundtruth_concepts[1][i]
                        ELSE original_predictions[1][i]] >>
    /\ predicted_concepts = original_predictions
    /\ hidden = prepare_initial_hidden(model_type, DOMAIN original_predictions)
    /\ max_interventions = 0
    /\ out = << >>
    /\ selected = << >>
    /\ all_inputs = << >>
    /\ all_masks = << >>
    /\ all_original_predictions = << >>
    /\ all_groundtruths = << >>
    /\ step = 0
    /\ concepts_is_callers = TRUE
    /\ TrainingIdle
    /\ CallsIdle
    /\ EpochIdle
    /\ SetupIdle
    /\ DataIdle
    /\ pc = "forward_call"

SpecForwardAny == InitForwardAny /\ [][NextForward]_vars

\* --------------------------------------------------- the training loop of main
\* line 502 as it would be with <= for <
Improved_or_equal(loss, best) == loss <= best

\* line 502: average_val_loss < best_val_loss
Improved(loss, best) == loss < best

\* line 514 as it would be with > for >=
ShouldStop_strict(counter, patience) == counter > patience

\* line 514: early_stop_counter >= early_stop_patience
ShouldStop(counter, patience) == counter >= patience

\* line 416 as it would be without the test of the model type
NeedsOptimizer_always(mt) == TRUE

\* line 416: model_type != 'Baseline'
NeedsOptimizer(mt) == mt # "Baseline"

\* line 444: model_type != 'Baseline'
RunsEpochBody(mt) == mt # "Baseline"

\* the gradients one backward pass can leave, in parameter units
Gradients == {0, 1}

\* optimizer.step(): Adam moves the parameters by the gradient's amount
OptimizerStep(th, grad) == th + grad

\* the values config['adapter_path'] takes: None or a path
AdapterPaths == {"None", "adapter.pth"}

\* main at line 404, the corrector built and its weights initialised
InitTrain ==
    /\ unit = Scale
    /\ model_type \in ModelTypes
    /\ epochs \in 0 .. MaxEpochs
    /\ early_stop_patience \in 0 .. MaxPatience
    /\ val_plan \in IF model_type = "Baseline" THEN {<< >>}
                    ELSE [1 .. epochs -> 0 .. MaxLoss]
    /\ adapter_path \in AdapterPaths
    /\ adapter_file_exists \in IF adapter_path = "None" THEN {FALSE} ELSE BOOLEAN
    /\ adapter = "None"
    /\ optimizer = "unset"
    /\ scheduler = "unset"
    /\ optimizer_steps = 0
    /\ backward_passes = 0
    /\ saved_model = << >>
    /\ DataIdle
    /\ CallsIdle
    /\ EpochIdle
    /\ epoch = 0
    /\ best_val_loss = Infinity
    /\ early_stop_counter = 0
    /\ val_losses = << >>
    /\ predicted_concepts = << >>
    /\ groundtruth_concepts = << >>
    /\ concepts = << >>
    /\ already_intervened_concepts = << >>
    /\ selected = << >>
    /\ TrajectoryIdle
    /\ pc = "adapter"

\* line 406 as it would be if the path were not looked up
path_exists_unchecked(path, exists) == TRUE

\* line 406: os.path.exists(config['adapter_path'])
path_exists(path, exists) == exists

\* lines 404-412: the adapter is loaded when a path is configured and a file is
\* there; a configured path without a file raises FileNotFoundError
LoadAdapter ==
    /\ pc = "adapter"
    /\ IF adapter_path = "None"
       THEN /\ adapter' = "None"
            /\ pc' = "optimizer"
       ELSE IF path_exists(adapter_path, adapter_file_exists)
            THEN /\ adapter' = "loaded"
                 /\ pc' = "optimizer"
            ELSE /\ adapter' = "None"
                 /\ pc' = "raised"
    /\ UNCHANGED <<adapter_path, optimizer, scheduler, optimizer_steps, backward_passes,
                   adapter_file_exists, saved_model>>
    /\ UNCHANGED dataVars
    /\ UNCHANGED callVars
    /\ UNCHANGED epochVars
    /\ UNCHANGED trainVars
    /\ UNCHANGED <<configVars, predicted_concepts, groundtruth_concepts, concepts,
                   already_intervened_concepts, original_predictions, hidden, out,
                   selected, all_inputs, all_masks, all_original_predictions,
                   all_groundtruths, step, concepts_is_callers>>

\* lines 416-439: the optimizer and the scheduler, for a trainable variant only
BuildOptimizer ==
    /\ pc = "optimizer"
    /\ optimizer' = IF NeedsOptimizer(model_type) THEN "Adam" ELSE "None"
    /\ scheduler' = IF NeedsOptimizer(model_type) THEN "StepLR" ELSE "None"
    /\ pc' = "training"
    /\ UNCHANGED <<adapter_path, adapter, optimizer_steps, backward_passes,
                   adapter_file_exists, saved_model>>
    /\ UNCHANGED dataVars
    /\ UNCHANGED callVars
    /\ UNCHANGED epochVars
    /\ UNCHANGED trainVars
    /\ UNCHANGED <<configVars, predicted_concepts, groundtruth_concepts, concepts,
                   already_intervened_concepts, original_predictions, hidden, out,
                   selected, all_inputs, all_masks, all_original_predictions,
                   all_groundtruths, step, concepts_is_callers>>

\* lines 440-516: one iteration of the epoch loop, with one training batch and
\* one validation batch.  Baseline skips the whole body; the trainable variants
\* make the backward pass and the optimizer step, validate and update the
\* early-stopping state, and break when the counter reaches the patience.
TrainEpoch ==
    /\ pc = "training"
    /\ epoch < epochs
    /\ epoch' = epoch + 1
    /\ IF ~RunsEpochBody(model_type)
       THEN /\ pc' = "training"
            /\ UNCHANGED <<best_val_loss, early_stop_counter, val_losses, theta,
                           optimizer_steps, backward_passes, theta_at_best,
                           scheduler_steps>>
       ELSE LET average_val_loss == val_plan[epoch + 1]
                counter == IF Improved(average_val_loss, best_val_loss)
                           THEN 0 ELSE early_stop_counter + 1
            IN  /\ \E grad \in Gradients : theta' = OptimizerStep(theta, grad)
                /\ backward_passes' = backward_passes + 1
                /\ optimizer_steps' = optimizer_steps + 1
                /\ scheduler_steps' = scheduler_steps + 1
                /\ val_losses' = Append(val_losses, average_val_loss)
                /\ best_val_loss' = IF Improved(average_val_loss, best_val_loss)
                                    THEN average_val_loss ELSE best_val_loss
                /\ theta_at_best' = IF Improved(average_val_loss, best_val_loss)
                                    THEN << theta' >> ELSE theta_at_best
                /\ early_stop_counter' = counter
                /\ pc' = IF ShouldStop(counter, early_stop_patience)
                         THEN "stopped" ELSE "training"
    /\ UNCHANGED <<epochs, early_stop_patience, val_plan>>
    /\ UNCHANGED <<adapter_path, adapter, optimizer, scheduler, adapter_file_exists,
                   saved_model>>
    /\ UNCHANGED dataVars
    /\ UNCHANGED <<batches_done, grads, loss_at, replay_out>>
    /\ UNCHANGED callVars
    /\ UNCHANGED <<unit, model_type, input_format, max_interventions,
                   concept_to_cluster, predicted_concepts, groundtruth_concepts, concepts,
                   already_intervened_concepts, original_predictions, hidden, out,
                   selected, all_inputs, all_masks, all_original_predictions,
                   all_groundtruths, step, concepts_is_callers>>

\* lines 517-520: after the loop, by break or by exhaustion of range
SaveModel ==
    /\ \/ pc = "stopped"
       \/ pc = "training" /\ epoch >= epochs
    /\ saved_model' = << theta >>
    /\ pc' = "done"
    /\ UNCHANGED trainVars
    /\ UNCHANGED <<adapter_path, adapter, optimizer, scheduler, optimizer_steps,
                   backward_passes, adapter_file_exists>>
    /\ UNCHANGED dataVars
    /\ UNCHANGED callVars
    /\ UNCHANGED epochVars
    /\ UNCHANGED <<configVars, predicted_concepts, groundtruth_concepts, concepts,
                   already_intervened_concepts, original_predictions, hidden, out,
                   selected, all_inputs, all_masks, all_original_predictions,
                   all_groundtruths, step, concepts_is_callers>>

NextTrain == LoadAdapter \/ BuildOptimizer \/ TrainEpoch \/ SaveModel

SpecTrain == InitTrain /\ [][NextTrain]_vars

\* ------------------------------------------------------------ one epoch of main
\* the rows the loaders give in an epoch
LoaderRows == {[i \in Idx |-> v] : v \in {1, Scale}}

\* a trainable variant at the top of an epoch (line 441), optimizer and
\* scheduler built, no batch drawn yet
InitEpoch ==
    /\ unit = Scale
    /\ model_type \in {"LSTM", "MultiLSTM"}
    /\ input_format \in InputFormats
    /\ max_interventions \in 0 .. 1
    /\ concept_to_cluster \in
          IF model_type = "MultiLSTM" THEN ClusterAssignments ELSE {[i \in Idx |-> 0]}
    /\ theta = InitialTheta
    /\ adapter \in {"None", "loaded"}
    /\ adapter_path = IF adapter = "None" THEN "None" ELSE "adapter.pth"
    /\ optimizer = "Adam"
    /\ scheduler = "StepLR"
    /\ optimizer_steps = 0
    /\ backward_passes = 0
    /\ adapter_file_exists = (adapter = "loaded")
    /\ saved_model = << >>
    /\ DataIdle
    /\ predicted_concepts = << >>
    /\ groundtruth_concepts = << >>
    /\ concepts = << >>
    /\ concepts_is_callers = TRUE
    /\ already_intervened_concepts = << >>
    /\ original_predictions = << >>
    /\ hidden = << >>
    /\ out = << >>
    /\ selected = << >>
    /\ all_inputs = << >>
    /\ all_masks = << >>
    /\ all_original_predictions = << >>
    /\ all_groundtruths = << >>
    /\ step = 0
    /\ TrainingIdle
    /\ CallsIdle
    /\ EpochIdle
    /\ pc = "load"

\* lines 445-446 and 476-477: the loader gives the next batch; the locals of the
\* batch before are gone
LoadBatch ==
    /\ pc = "load"
    /\ predicted_concepts' \in {<< r >> : r \in LoaderRows}
    /\ groundtruth_concepts' = << [i \in Idx |-> IF i = 1 THEN Scale ELSE 0] >>
    /\ concepts' = << >>
    /\ concepts_is_callers' = TRUE
    /\ already_intervened_concepts' = << >>
    /\ original_predictions' = << >>
    /\ hidden' = << >>
    /\ out' = << >>
    /\ selected' = << >>
    /\ all_inputs' = << >>
    /\ all_masks' = << >>
    /\ all_original_predictions' = << >>
    /\ all_groundtruths' = << >>
    /\ step' = 0
    /\ forward_calls' = << >>
    /\ pc' = Body(batches_done)[1]
    /\ UNCHANGED configVars
    /\ UNCHANGED trainVars
    /\ UNCHANGED setupVars
    /\ UNCHANGED dataVars
    /\ UNCHANGED epochVars

\* the part of an action of the epoch that touches no local of the batch
BatchLocalsUnchanged ==
    UNCHANGED <<predicted_concepts, groundtruth_concepts, concepts,
                concepts_is_callers, already_intervened_concepts,
                original_predictions, hidden, out, selected, all_inputs, all_masks,
                all_original_predictions, all_groundtruths, step>>

\* line 447: optimizer.zero_grad()
ZeroGrad ==
    /\ pc = "zero_grad"
    /\ grads' = 0
    /\ pc' = StatementAfter(batches_done, "zero_grad")
    /\ batches_done' = BatchesAfter(batches_done, "zero_grad")
    /\ UNCHANGED <<theta_at_best, loss_at, scheduler_steps, replay_out>>
    /\ BatchLocalsUnchanged
    /\ UNCHANGED configVars
    /\ UNCHANGED trainVars
    /\ UNCHANGED setupVars
    /\ UNCHANGED dataVars
    /\ UNCHANGED callVars

\* line 467: loss.backward() adds the gradient of the loss to the buffers
Backward ==
    /\ pc = "backward"
    /\ \E g \in Gradients : grads' = grads + g
    /\ backward_passes' = backward_passes + 1
    /\ pc' = StatementAfter(batches_done, "backward")
    /\ batches_done' = BatchesAfter(batches_done, "backward")
    /\ UNCHANGED <<theta_at_best, loss_at, scheduler_steps, replay_out>>
    /\ UNCHANGED <<adapter_path, adapter, optimizer, scheduler, optimizer_steps,
                   adapter_file_exists, saved_model>>
    /\ BatchLocalsUnchanged
    /\ UNCHANGED configVars
    /\ UNCHANGED trainVars
    /\ UNCHANGED dataVars
    /\ UNCHANGED callVars

\* line 468: optimizer.step() updates the parameters from the buffers
StepOptimizer ==
    /\ pc = "optimizer_step"
    /\ theta' = OptimizerStep(theta, grads)
    /\ optimizer_steps' = optimizer_steps + 1
    /\ pc' = StatementAfter(batches_done, "optimizer_step")
    /\ batches_done' = BatchesAfter(batches_done, "optimizer_step")
    /\ UNCHANGED <<theta_at_best, grads, loss_at, scheduler_steps, replay_out>>
    /\ UNCHANGED <<adapter_path, adapter, optimizer, scheduler, backward_passes,
                   adapter_file_exists, saved_model>>
    /\ BatchLocalsUnchanged
    /\ UNCHANGED <<unit, model_type, input_format, max_interventions,
                   concept_to_cluster>>
    /\ UNCHANGED trainVars
    /\ UNCHANGED dataVars
    /\ UNCHANGED callVars

\* line 470: scheduler.step(), after the loop over train_loader
StepScheduler ==
    /\ pc = "scheduler"
    /\ scheduler_steps' = scheduler_steps + 1
    /\ pc' = "load"
    /\ UNCHANGED <<theta_at_best, batches_done, grads, loss_at, replay_out>>
    /\ BatchLocalsUnchanged
    /\ UNCHANGED configVars
    /\ UNCHANGED trainVars
    /\ UNCHANGED setupVars
    /\ UNCHANGED dataVars
    /\ UNCHANGED callVars

NextEpoch ==
    \/ LoadBatch \/ ZeroGrad \/ PrepareHidden \/ AdapterPass
    \/ Begin \/ Warmup \/ LoopIntervene \/ LoopForward \/ Finish \/ Replay
    \/ Backward \/ StepOptimizer \/ StepScheduler

SpecEpoch == InitEpoch /\ [][NextEpoch]_vars

\* ------------------------------------------------------------ prepare_datasets
\* ensure_all_classes: len(torch.unique(train_labels)) == J
ensure_all_classes(unique_classes, J) == unique_classes = J

\* the seed of an attempt as it would be if every attempt took the same seed
AttemptSeed_same(s, a) == s

\* line 319: seed + attempt
AttemptSeed(s, a) == s + a

\* prepare_datasets at line 318; class_counts is what generate_synthetic_data
\* yields: for each attempt, the number of classes in its training labels
InitData ==
    /\ seed \in 0 .. MaxSeed
    /\ class_counts \in [1 .. LastAttempt -> 0 .. NumClasses]
    /\ attempt = 0
    /\ data_seed = << >>
    /\ train_dataset = << >>
    /\ unit = Scale
    /\ model_type = "LSTM"
    /\ predicted_concepts = << >>
    /\ groundtruth_concepts = << >>
    /\ concepts = << >>
    /\ already_intervened_concepts = << >>
    /\ selected = << >>
    /\ TrajectoryIdle
    /\ TrainingIdle
    /\ CallsIdle
    /\ EpochIdle
    /\ SetupIdle
    /\ pc = "generate"

\* lines 318-330: one attempt; break when every class is in the training labels
Attempt ==
    /\ pc = "generate"
    /\ attempt < LastAttempt
    /\ attempt' = attempt + 1
    /\ data_seed' = << AttemptSeed(seed, attempt') >>
    /\ pc' = IF ensure_all_classes(class_counts[attempt'], NumClasses)
             THEN "build" ELSE "generate"
    /\ UNCHANGED <<seed, class_counts, train_dataset>>
    /\ UNCHANGED <<configVars, predicted_concepts, groundtruth_concepts, concepts,
                   already_intervened_concepts, original_predictions, hidden, out,
                   selected, all_inputs, all_masks, all_original_predictions,
                   all_groundtruths, step, concepts_is_callers>>
    /\ UNCHANGED trainVars
    /\ UNCHANGED setupVars
    /\ UNCHANGED callVars
    /\ UNCHANGED epochVars

\* lines 331-332: the loop ran out without a break
RaiseExhausted ==
    /\ pc = "generate"
    /\ attempt >= LastAttempt
    /\ pc' = "raised"
    /\ UNCHANGED dataVars
    /\ UNCHANGED callVars
    /\ UNCHANGED epochVars
    /\ UNCHANGED <<configVars, predicted_concepts, groundtruth_concepts, concepts,
                   already_intervened_concepts, original_predictions, hidden, out,
                   selected, all_inputs, all_masks, all_original_predictions,
                   all_groundtruths, step, concepts_is_callers>>
    /\ UNCHANGED trainVars
    /\ UNCHANGED setupVars
    /\ UNCHANGED callVars
    /\ UNCHANGED epochVars

\* lines 333-345: the datasets are built from the data of the last attempt
BuildDatasets ==
    /\ pc = "build"
    /\ train_dataset' = data_seed
    /\ pc' = "returned"
    /\ UNCHANGED <<seed, class_counts, attempt, data_seed>>
    /\ UNCHANGED <<configVars, predicted_concepts, groundtruth_concepts, concepts,
                   already_intervened_concepts, original_predictions, hidden, out,
                   selected, all_inputs, all_masks, all_original_predictions,
                   all_groundtruths, step, concepts_is_callers>>
    /\ UNCHANGED trainVars
    /\ UNCHANGED setupVars
    /\ UNCHANGED callVars
    /\ UNCHANGED epochVars

NextData == Attempt \/ RaiseExhausted \/ BuildDatasets

SpecData == InitData /\ [][NextData]_vars

\* ---------------------------------------------------------------- the claims
Snapshots == 1 .. Len(all_masks)
Min(a, b) == IF a <= b THEN a ELSE b

\* C1 Revealed-value invariance: once mask[i] is set at a snapshot, the recorded
\* concept value at i in every later snapshot equals groundtruth[i] exactly.
C1_RevealedValueInvariance ==
    \A t \in Snapshots : \A u \in Snapshots : \A b \in DOMAIN all_masks[t] :
        \A i \in Idx :
            (t < u /\ all_masks[t][b][i] = 1)
                => all_inputs[u][b][i] = groundtruth_concepts[b][i]

\* the raw estimate of the step from the current state, as [B, k]
FreshEstimate ==
    LET i3 == Unsqueeze(concepts)
        a3 == Unsqueeze(already_intervened_concepts)
        o3 == Unsqueeze(original_predictions)
    IN  CASE model_type = "LSTM" ->
               LET r == LSTMEstimate(theta, input_format, i3, a3, o3, hidden)
               IN  [b \in DOMAIN concepts |-> r[b].out[1]]
          [] model_type = "MultiLSTM" ->
               LET r == MultiLSTMEstimate(theta, input_format, concept_to_cluster,
                                          i3, a3, o3, hidden)
               IN  [b \in DOMAIN concepts |-> [i \in Idx |->
                      r[concept_to_cluster[i]][b].out[1][
                          ClusterPosition(concept_to_cluster, i)]]]
          [] OTHER -> original_predictions

\* C2 Output blending rule: a forward step's output equals its input at every
\* masked dimension and the variant's fresh estimate at every unmasked one.
C2_OutputBlendingRule ==
    [][(pc \in {"warmup", "forward"} /\ pc' = "loop")
        => \A b \in DOMAIN concepts : \A i \in Idx :
              out'[b][i] = IF already_intervened_concepts[b][i] = 1
                           THEN concepts[b][i]
                           ELSE FreshEstimate[b][i]]_vars

\* C3 Bounded length: the returned trajectory holds exactly
\* min(max_interventions, k) + 1 snapshots in each of its four stacked tensors.
C3_BoundedLength ==
    pc = "done" =>
        /\ Len(all_inputs) = Min(max_interventions, NumConcepts) + 1
        /\ Len(all_masks) = Min(max_interventions, NumConcepts) + 1
        /\ Len(all_original_predictions) = Min(max_interventions, NumConcepts) + 1
        /\ Len(all_groundtruths) = Min(max_interventions, NumConcepts) + 1

\* C4 Mask monotonicity: a mask bit set in one snapshot of a trajectory is set
\* in every later snapshot.
C4_MaskMonotonicity ==
    \A t \in Snapshots : \A u \in Snapshots : \A b \in DOMAIN all_masks[t] :
        \A i \in Idx :
            (t < u /\ all_masks[t][b][i] = 1) => all_masks[u][b][i] = 1

\* a finished trajectory in which a bit set by the first intervention is
\* followed by two more snapshots
C4_Witness ==
    /\ pc = "done"
    /\ Len(all_masks) >= 4
    /\ \E i \in Idx : all_masks[2][1][i] = 1 /\ all_masks[4][1][i] = 1
    /\ \E i \in Idx : all_masks[2][1][i] = 0 /\ all_masks[3][1][i] = 1

\* C5 Exactly one new mask bit per intervention step: between consecutive
\* snapshots exactly one bit is set that was not set before.
C5_OneNewBitPerStep ==
    \A t \in Snapshots : \A b \in DOMAIN all_masks[t] :
        t >= 2 =>
            Cardinality({i \in Idx : all_masks[t][b][i] = 1
                                     /\ all_masks[t - 1][b][i] = 0}) = 1

\* the reference selection of one row: the lowest-index unmasked dimension
\* minimising |concepts[i] - 0.5|; with every dimension masked, the lowest index
RefSelect(row, m) ==
    LET open == {i \in DOMAIN row : m[i] = 0}
        dist(i) == Abs(2 * row[i] - Scale)
        best == {i \in open : \A j \in open : dist(i) <= dist(j)}
    IN  IF open = {} THEN 1 ELSE CHOOSE i \in best : \A j \in best : i <= j

\* C6 intervene matches its reference per row: the selected index is the lowest
\* index of maximum importance (for ucp the reference selection above); the
\* concept there becomes the ground truth and its mask bit 1, every other entry
\* is unchanged; and a row's result is that of intervene on the row alone.
C6_InterveneMatchesReference ==
    [][(pc = "call" /\ pc' = "returned")
        => \A b \in DOMAIN concepts :
              LET s == selected'[b]
                  imp == ucp(concepts, already_intervened_concepts)[b]
                  alone == intervene(<< concepts[b] >>,
                                     << already_intervened_concepts[b] >>,
                                     << groundtruth_concepts[b] >>)
              IN  /\ s = RefSelect(concepts[b], already_intervened_concepts[b])
                  /\ \A j \in Idx : ~ImpLess(imp[s], imp[j])
                  /\ \A j \in Idx : j < s => ImpLess(imp[j], imp[s])
                  /\ concepts'[b][s] = groundtruth_concepts[b][s]
                  /\ already_intervened_concepts'[b][s] = 1
                  /\ \A j \in Idx \ {s} :
                        /\ concepts'[b][j] = concepts[b][j]
                        /\ already_intervened_concepts'[b][j]
                              = already_intervened_concepts[b][j]
                  /\ alone.concepts[1] = concepts'[b]
                  /\ alone.mask[1] = already_intervened_concepts'[b]
                  /\ alone.selected[1] = s]_vars

\* intervene has returned; in the first row the dimension nearest 0.5 was masked
\* and a later, farther one was selected; the second row selected another index
C6_Witness ==
    /\ pc = "returned"
    /\ selected[1] = 2
    /\ Abs(2 * predicted_concepts[1][1] - Scale) < Abs(2 * predicted_concepts[1][2] - Scale)
    /\ selected[2] = 1
    /\ concepts[1][2] # predicted_concepts[1][2]

\* C7 No concept dimension is re-selected: intervene never selects a dimension
\* whose mask bit is already set.
C7_NeverReselected ==
    [][(pc = "loop" /\ pc' = "forward")
        => \A b \in DOMAIN concepts :
              already_intervened_concepts[b][selected'[b]] = 0]_vars

Trainable == model_type # "Baseline"

\* the scenario of C8: epochs >= patience + 2, and after epoch 1 (which improves
\* on infinity) the validation loss strictly increases for patience + 1 epochs
C8_Scenario ==
    /\ Trainable
    /\ epochs >= early_stop_patience + 2
    /\ \A e \in 2 .. (early_stop_patience + 2) : val_plan[e] > val_plan[e - 1]

\* C8 as stated: in the scenario the training loop halts exactly at epoch
\* patience + 2, the last epoch executed.
C8_HaltsAtPatiencePlusTwo ==
    (pc = "done" /\ C8_Scenario) => epoch = early_stop_patience + 2

\* C8 amended: in the scenario the training loop halts exactly at epoch
\* patience + 1, the last epoch executed.
C8_HaltsAtPatiencePlusOne ==
    (pc = "done" /\ C8_Scenario)
        => /\ epoch = early_stop_patience + 1
           /\ Len(val_losses) = early_stop_patience + 1

\* a finished run of the scenario with a patience of two epochs
C8_Witness ==
    /\ pc = "done"
    /\ C8_Scenario
    /\ early_stop_patience = 2

\* the least entry of a non-empty sequence
MinOf(l) == CHOOSE x \in {l[e] : e \in DOMAIN l} : \A e \in DOMAIN l : x <= l[e]

\* the last epoch of l whose loss is strictly below every earlier one (0: none)
LastImprovement(l) ==
    LET imp == {e \in DOMAIN l : \A j \in 1 .. (e - 1) : l[e] < l[j]}
    IN  IF imp = {} THEN 0 ELSE CHOOSE e \in imp : \A f \in imp : f <= e

\* the stall counter after the first e epochs of l, from the history alone
StallAfter(l, e) == e - LastImprovement(SubSeq(l, 1, e))

\* C9 Early-stopping state: after each completed epoch of a trainable variant
\* best_val_loss is the minimum validation loss so far and early_stop_counter
\* the number of epochs since the last strict improvement; the loop exits at
\* the first epoch whose counter is >= the patience, or after config epochs.
C9_EarlyStoppingState ==
    Trainable =>
        /\ Len(val_losses) = epoch
        /\ \A e \in DOMAIN val_losses : val_losses[e] = val_plan[e]
        /\ epoch >= 1 => best_val_loss = MinOf(val_losses)
        /\ early_stop_counter = StallAfter(val_losses, epoch)
        /\ \A e \in 1 .. (epoch - 1) : StallAfter(val_losses, e) < early_stop_patience
        /\ (pc = "training" /\ epoch >= 1) => early_stop_counter < early_stop_patience
        /\ pc = "stopped" => early_stop_counter >= early_stop_patience
        /\ pc = "done" => (early_stop_counter >= early_stop_patience /\ epoch >= 1)
                          \/ epoch = epochs

\* a run stopped early before its last epoch, after an epoch that repeated the
\* best loss and one that was worse
C9_Witness ==
    /\ Trainable
    /\ pc = "done"
    /\ epoch = 3
    /\ epoch < epochs
    /\ val_losses[2] = val_losses[1]
    /\ val_losses[3] > val_losses[1]
    /\ early_stop_counter = 2

\* C10 Interchangeable variants: sample_trajectory runs to completion without
\* raising for Baseline exactly as for LSTM and MultiLSTM.
C10_BaselineCompletes == pc # "raised"

\* C11 Baseline is never trained: for Baseline no optimizer and no scheduler
\* are constructed and, for any number of epochs, no optimizer step, backward
\* pass or parameter update is made; the parameters at the end equal those at
\* construction.
C11_BaselineNeverTrained ==
    model_type = "Baseline" =>
        /\ optimizer \in {"unset", "None"}
        /\ scheduler \in {"unset", "None"}
        /\ pc \in {"training", "stopped", "done"}
              => optimizer = "None" /\ scheduler = "None"
        /\ optimizer_steps = 0
        /\ backward_passes = 0
        /\ theta = InitialTheta

\* a Baseline run that went through three epochs or more and reached the save
C11_Witness ==
    /\ model_type = "Baseline"
    /\ pc = "done"
    /\ epochs >= 3
    /\ epoch = epochs

\* the clusters whose index list holds concept i, and how often a list holds it
Writers(c2c, i) ==
    {c \in ClusterIds : \E j \in DOMAIN ClusterConceptIndices(c2c, c) :
                            ClusterConceptIndices(c2c, c)[j] = i}
Occurrences(c2c, c, i) ==
    Cardinality({j \in DOMAIN ClusterConceptIndices(c2c, c) :
                    ClusterConceptIndices(c2c, c)[j] = i})

\* C12 Cluster completeness: for MultiLSTM and any concept_to_cluster of length
\* k with entries in [0, m), empty clusters included, the per-cluster index
\* lists of forward are pairwise disjoint and their union is all k indices, so
\* every output position is written exactly once per forward pass.
C12_ClusterCompleteness ==
    model_type = "MultiLSTM" =>
        /\ \A c \in ClusterIds : \A j \in DOMAIN ClusterConceptIndices(concept_to_cluster, c) :
               ClusterConceptIndices(concept_to_cluster, c)[j] \in Idx
        /\ \A i \in Idx :
               /\ Cardinality(Writers(concept_to_cluster, i)) = 1
               /\ \A c \in Writers(concept_to_cluster, i) :
                      Occurrences(concept_to_cluster, c, i) = 1

\* a forward pass has returned for an assignment that leaves the first cluster
\* empty and puts every concept in the last
C12_Witness ==
    /\ model_type = "MultiLSTM"
    /\ pc = "forward_returned"
    /\ \A i \in Idx : concept_to_cluster[i] = NumClusters - 1
    /\ ClusterConceptIndices(concept_to_cluster, 0) = << >>
    /\ Len(out[1]) = NumConcepts

\* every entry of a [B, k] tensor lies in [0, 1]
InUnitRange(t) == \A b \in DOMAIN t : \A i \in DOMAIN t[b] : t[b][i] \in Grid

\* C13 Range invariant: with predicted and ground-truth concepts in [0, 1],
\* for every variant, both input formats and every timestep, every corrector
\* output and every recorded concept value lies in [0, 1].
C13_RangeInvariant ==
    /\ InUnitRange(out)
    /\ InUnitRange(concepts)
    /\ \A t \in DOMAIN all_inputs : InUnitRange(all_inputs[t])
    /\ \A t \in DOMAIN all_original_predictions : InUnitRange(all_original_predictions[t])

\* a finished trajectory of three snapshots or more whose second snapshot holds
\* both a revealed value and an estimate that differs from the prediction
C13_Witness ==
    /\ pc = "done"
    /\ Len(all_inputs) >= 3
    /\ \E i \in Idx : all_masks[2][1][i] = 1
    /\ \E i \in Idx : /\ all_masks[2][1][i] = 0
                       /\ all_inputs[2][1][i] # all_original_predictions[2][1][i]

\* intervene was called on the row and the ground truth of the scenario
InScenario ==
    /\ predicted_concepts = << ScenarioConcepts >>
    /\ groundtruth_concepts = << ScenarioGroundtruth >>

\* C14 Scenario (intervene on k=4): with concepts [0.5, 0.9, 0.1, 0.5], mask
\* all-false and ground truth [1, 0, 1, 0], one call of intervene with ucp
\* selects index 0, the lowest of the two tied maxima at indices 0 and 3, and
\* returns concepts [1, 0.9, 0.1, 0.5] and mask [1, 0, 0, 0].
C14_ScenarioIntervene ==
    (pc = "returned" /\ InScenario) =>
        LET imp == ucp(predicted_concepts, << [i \in 1 .. 4 |-> 0] >>)[1]
        IN  /\ selected = << 1 >>
            /\ {i \in 1 .. 4 : \A j \in 1 .. 4 : ~ImpLess(imp[i], imp[j])} = {1, 4}
            /\ concepts = << << 10, 9, 1, 5 >> >>
            /\ already_intervened_concepts = << << 1, 0, 0, 0 >> >>

\* intervene has returned from the call of the scenario
C14_Witness ==
    /\ pc = "returned"
    /\ InScenario
    /\ unit = 10
    /\ selected # << >>

\* an importance within a hundredth of a target below Limb units, or equal to it
Near(imp, target) ==
    /\ imp[1] = target[1]
    /\ Abs((imp[2] * 100 + imp[3]) - (target[2] * 100 + target[3])) <= 1

\* C15 as stated: for the scenario's concepts and an all-false mask ucp returns
\* importance approximately [2e8, 1.25, 1.11, 2e8].
C15_ImportanceAsStated ==
    [][(pc = "call" /\ pc' = "returned" /\ InScenario)
        => LET imp == ucp(concepts, already_intervened_concepts)[1]
           IN  /\ Near(imp[1], << 2000, 0, 0 >>)
               /\ Near(imp[2], << 0, 1, 25 >>)
               /\ Near(imp[3], << 0, 1, 11 >>)
               /\ Near(imp[4], << 2000, 0, 0 >>)]_vars

\* C15 amended: for the scenario's concepts and an all-false mask ucp,
\* 1 / (|concepts[i] - 0.5| + eps) with eps = 1e-8, returns importance
\* approximately [1e8, 2.5, 2.5, 1e8].
C15_ImportanceValues ==
    [][(pc = "call" /\ pc' = "returned" /\ InScenario)
        => LET imp == ucp(concepts, already_intervened_concepts)[1]
           IN  /\ Near(imp[1], << 1000, 0, 0 >>)
               /\ Near(imp[2], << 0, 2, 50 >>)
               /\ Near(imp[3], << 0, 2, 50 >>)
               /\ Near(imp[4], << 1000, 0, 0 >>)]_vars

\* ucp was applied to the scenario's row: the first concept was replaced
C15_Witness ==
    /\ pc = "returned"
    /\ InScenario
    /\ concepts[1][1] = groundtruth_concepts[1][1]
    /\ concepts[1][1] # predicted_concepts[1][1]

\* C16 Recorded snapshots are immutable values: snapshot 0 has an all-zero mask
\* and the concepts passed in, each snapshot t >= 1 holds the concepts and mask
\* as they were right after the t-th intervene call, and no later in-place
\* write by intervene or a forward step changes a recorded snapshot.
C16_SnapshotsImmutable ==
    [][/\ \A t \in DOMAIN all_inputs : all_inputs'[t] = all_inputs[t]
       /\ \A t \in DOMAIN all_masks : all_masks'[t] = all_masks[t]
       /\ Len(all_inputs') >= 1 =>
             /\ all_inputs'[1] = predicted_concepts'
             /\ \A b \in DOMAIN all_masks'[1] : \A i \in Idx : all_masks'[1][b][i] = 0
       /\ (pc = "loop" /\ pc' = "forward") =>
             LET r == intervene(concepts, already_intervened_concepts,
                                groundtruth_concepts)
             IN  /\ Len(all_inputs') = step' + 1
                 /\ Len(all_masks') = step' + 1
                 /\ all_inputs'[step' + 1] = r.concepts
                 /\ all_masks'[step' + 1] = r.mask]_vars

\* a finished trajectory whose first three snapshots differ from one another
C16_Witness ==
    /\ pc = "done"
    /\ Len(all_masks) >= 3
    /\ all_inputs[1] # all_inputs[2]
    /\ all_inputs[2] # all_inputs[3]
    /\ all_masks[2] # all_masks[3]

\* C17 Hidden state is fresh and exclusively owned: every sample_trajectory
\* run started by the training or validation loop, with or without an adapter,
\* for LSTM and MultiLSTM, begins with an all-zero hidden state that no other
\* computation (the adapter pass among them) has modified.
C17_HiddenFreshAtStart ==
    pc = "start" =>
        hidden = prepare_initial_hidden(model_type, DOMAIN predicted_concepts)

\* C19 Missing adapter: with adapter_path configured and no file at that path,
\* main raises a fatal not-found error before the optimizer is constructed
\* and before any training batch, validation batch or checkpoint write; with
\* adapter_path None no adapter is loaded and startup continues.
C19_MissingAdapter ==
    /\ (pc # "adapter" /\ adapter_path # "None" /\ ~adapter_file_exists) =>
           /\ pc = "raised"
           /\ adapter = "None"
           /\ optimizer = "unset"
           /\ scheduler = "unset"
           /\ epoch = 0
           /\ backward_passes = 0
           /\ optimizer_steps = 0
           /\ val_losses = << >>
           /\ saved_model = << >>
    /\ pc = "raised" => adapter_path # "None" /\ ~adapter_file_exists
    /\ adapter_path = "None" => adapter = "None" /\ pc # "raised"
    /\ adapter = "loaded" => adapter_path # "None" /\ adapter_file_exists

\* main has raised for a trainable variant configured for one epoch or more
C19_Witness ==
    /\ pc = "raised"
    /\ adapter_path # "None"
    /\ ~adapter_file_exists
    /\ model_type # "Baseline"
    /\ epochs >= 1

\* C20 Data-generation retry: prepare_datasets makes at most 5 attempts,
\* attempt a using seed + a; it stops at the first attempt whose training
\* labels hold all J classes and goes on with that attempt's data, and it
\* raises if and only if all 5 attempts fail the all-classes test.
C20_DataRetry ==
    /\ attempt \in 0 .. 5
    /\ attempt >= 1 => data_seed = << seed + attempt >>
    /\ \A a \in 1 .. (attempt - 1) : class_counts[a] # NumClasses
    /\ (pc = "generate" /\ attempt >= 1) => class_counts[attempt] # NumClasses
    /\ pc \in {"build", "returned"} =>
           /\ attempt >= 1
           /\ class_counts[attempt] = NumClasses
    /\ pc = "returned" => train_dataset = << seed + attempt >>
    /\ pc = "raised" =>
           /\ attempt = 5
           /\ \A a \in 1 .. 5 : class_counts[a] # NumClasses
           /\ train_dataset = << >>

\* the datasets were returned from the third attempt, after two that failed
C20_Witness ==
    /\ pc = "returned"
    /\ attempt = 3
    /\ seed = 1
    /\ train_dataset = << 4 >>

\* the call has ended, by return or by an exception
Ended == pc \in {"done", "raised"}

\* the forward steps made are chained: each takes the hidden state the one
\* before returned, and its concepts are those intervene made of the output
\* of the one before
Chained ==
    \A t \in 2 .. Len(forward_calls) :
        /\ forward_calls[t].hidden = forward_calls[t - 1].hid
        /\ forward_calls[t].inputs =
              intervene(forward_calls[t - 1].out, forward_calls[t - 1].mask,
                        groundtruth_concepts).concepts

(* C21: sample_trajectory makes one forward step with the all-false mask       *)
(* before the first intervene, then alternates intervene, snapshot, forward    *)
(* step; it ends after max_interventions intervenes and max_interventions + 1  *)
(* forward steps; for the recurrent variants each forward step takes the       *)
(* hidden state the one before returned and the next intervene takes its       *)
(* output.                                                                     *)
C21_StepOrdering ==
    /\ pc = "loop" => Len(forward_calls) = step + 1
    /\ pc = "forward" => Len(forward_calls) = step /\ Len(all_inputs) = step + 1
    /\ Len(forward_calls) >= 1 =>
          \A b \in DOMAIN forward_calls[1].mask : \A i \in Idx :
              forward_calls[1].mask[b][i] = 0
    /\ Ended => /\ pc = "done"
                /\ step = max_interventions
                /\ Len(forward_calls) = max_interventions + 1
    /\ model_type # "Baseline" => Chained

\* every one of the k mask bits of every row is set
Exhausted(aic) == \A b \in DOMAIN aic : \A i \in DOMAIN aic[b] : aic[b][i] = 1

(* C22: an intervene called with every mask bit already set returns, selects   *)
(* the lowest index (1 here, 0 in the source), leaves the mask all ones and    *)
(* changes no concept but that one, which takes its ground truth.              *)
C22_ExhaustedState ==
    [][(pc = "loop" /\ step < max_interventions /\ Exhausted(already_intervened_concepts))
        => /\ pc' = "forward"
           /\ already_intervened_concepts' = already_intervened_concepts
           /\ \A b \in DOMAIN concepts :
                 /\ selected'[b] = 1
                 /\ concepts'[b][1] = groundtruth_concepts[b][1]
                 /\ \A j \in Idx \ {1} : concepts'[b][j] = concepts[b][j]]_vars

\* the last intervene was given the all-ones mask of the snapshot before it
C22_Witness ==
    /\ pc = "forward"
    /\ step = NumConcepts + 1
    /\ Exhausted(all_masks[step])
    /\ selected[1] = 1
    /\ concepts[1][1] = groundtruth_concepts[1][1]
    /\ \E t \in 1 .. step : all_inputs[t + 1][1][1] # groundtruth_concepts[1][1]

\* the concept indices of cluster c, as a set
Own(c) ==
    {ClusterConceptIndices(concept_to_cluster, c)[j] :
        j \in DOMAIN ClusterConceptIndices(concept_to_cluster, c)}

\* t with every value at an index outside cluster c replaced by zero
Erased(c, t) == [b \in DOMAIN t |-> [i \in DOMAIN t[b] |-> IF i \in Own(c) THEN t[b][i] ELSE 0]]

\* the forward call of the state with everything that is not cluster c's
\* replaced: foreign inputs, mask bits and original predictions by zero, every
\* other cluster's hidden state by h
ForwardErased(c, h) ==
    forward("MultiLSTM", theta, input_format, concept_to_cluster,
            Unsqueeze(Erased(c, concepts)),
            Unsqueeze(Erased(c, already_intervened_concepts)),
            Unsqueeze(Erased(c, original_predictions)),
            [d \in DOMAIN hidden |->
                IF d = c + 1 THEN hidden[d] ELSE [b \in DOMAIN hidden[d] |-> h]])

\* r gives cluster c the outputs o and the hidden state of h
SameForCluster(c, r, o, h) ==
    /\ r.hid[c + 1] = h[c + 1]
    /\ \A i \in Own(c) : r.out[1][1][i] = o[1][i]

(* C23: in MultiLSTM forward the outputs at a cluster's indices and the        *)
(* cluster's new hidden state are those of the call in which every input, mask *)
(* bit and original prediction outside the cluster and every other cluster's   *)
(* hidden state is replaced, so two calls that agree on the cluster's own       *)
(* values and hidden state agree on its results; a cluster without concepts    *)
(* keeps its hidden state.                                                     *)
C23_ClusterIndependence ==
    [][(pc = "forward_call" /\ pc' = "forward_returned" /\ model_type = "MultiLSTM")
        => \A c \in ClusterIds :
              /\ Own(c) = {} => hidden'[c + 1] = hidden[c + 1]
              /\ \A h \in Grid : SameForCluster(c, ForwardErased(c, h), out', hidden')]_vars

\* a call with two non-empty clusters whose outputs differ from the inputs
C23_Witness ==
    /\ model_type = "MultiLSTM"
    /\ pc = "forward_returned"
    /\ concept_to_cluster[1] # concept_to_cluster[2]
    /\ Own(concept_to_cluster[1]) # {}
    /\ Own(concept_to_cluster[2]) # {}
    /\ out[1][1] # concepts[1][1]
    /\ out[1][2] # concepts[1][2]
    /\ \A i \in {1, 2} : concepts[1][i] # 0 /\ original_predictions[1][i] # 0
    /\ already_intervened_concepts[1][2] = 1

\* the values the routing hint can take: None and every ascending list of
\* cluster ids without repetition
HintValues == {<< >>} \cup {unique(t) : t \in [1 .. NumClusters -> ClusterIds]}

\* the new hidden state of cluster c's sub-model run on the step's input
SubModelHidden(c) ==
    LET x == ModelInput(input_format, Unsqueeze(concepts),
                        Unsqueeze(already_intervened_concepts),
                        Unsqueeze(original_predictions))
        idx == ClusterConceptIndices(concept_to_cluster, c)
    IN  [b \in DOMAIN concepts |->
            LstmRun(theta + c, << Gather(x[b][1], idx) >>, hidden[c + 1][b]).hid]

(* C24: a forward step of a MultiLSTM trajectory returns the same output and   *)
(* hidden states for every value of the routing hint, None included, and       *)
(* replaces the hidden state of every non-empty cluster by what its sub-model  *)
(* returns, whichever concept was intervened on.                               *)
C24_HintIgnored ==
    [][(pc \in {"warmup", "forward"} /\ pc' = "loop" /\ model_type = "MultiLSTM")
        => /\ \A ids \in HintValues :
                 MultiLSTM_forward_single_timestep(theta, input_format,
                     concept_to_cluster, concepts, already_intervened_concepts,
                     original_predictions, hidden, ids, ids)
                 = [out |-> out', hid |-> hidden']
           /\ \A c \in ClusterIds :
                 ClusterConceptIndices(concept_to_cluster, c) # << >>
                    => hidden'[c + 1] = SubModelHidden(c)]_vars

\* a step after an intervention on a concept of cluster 1 that has replaced
\* the hidden state of cluster 0 as well
C24_Witness ==
    /\ model_type = "MultiLSTM"
    /\ pc = "loop"
    /\ step >= 1
    /\ LET last == forward_calls[Len(forward_calls)]
       IN  /\ last.selected_cluster_ids = << 1 >>
           /\ ClusterConceptIndices(concept_to_cluster, 0) # << >>
           /\ last.hid[1] # last.hidden[1]
           /\ last.hid = hidden

(* C25: the checkpoint written when training ends holds the parameters as they *)
(* were at the end of the epoch with the lowest validation loss.               *)
C25_BestCheckpoint ==
    (Trainable /\ pc = "done" /\ epoch >= 1) => saved_model = theta_at_best

\* the epoch is in its validation pass
Validating == batches_done >= NumBatches /\ pc # "scheduler"

(* C26: in an epoch of a trainable variant the parameters change at            *)
(* optimizer.step() only; each training batch zeroes the buffers before its    *)
(* loss is computed, computes the loss at the current parameters, runs         *)
(* backward once and then steps the optimizer once on that batch's gradient;   *)
(* the scheduler is stepped once, after the last training batch; the adapter   *)
(* pass, sample_trajectory and the validation pass change no parameter.        *)
C26_ParametersChangeAtStep ==
    [][/\ theta' # theta => pc = "optimizer_step" /\ ~Validating
       /\ (pc = "zero_grad" /\ ~Validating) =>
              /\ forward_calls = << >>
              /\ optimizer_steps = batches_done
              /\ backward_passes = batches_done
       /\ backward_passes' # backward_passes =>
              /\ pc = "backward" /\ ~Validating
              /\ grads = 0
              /\ forward_calls # << >>
              /\ loss_at = << theta >>
              /\ backward_passes = batches_done
              /\ optimizer_steps = batches_done
       /\ optimizer_steps' # optimizer_steps =>
              /\ pc = "optimizer_step" /\ ~Validating
              /\ optimizer_steps' = optimizer_steps + 1
              /\ optimizer_steps = batches_done
              /\ backward_passes = optimizer_steps + 1
              /\ loss_at = << theta >>
              /\ grads \in Gradients
              /\ theta' = OptimizerStep(theta, grads)
              /\ batches_done' = batches_done + 1
       /\ scheduler_steps' # scheduler_steps =>
              /\ scheduler_steps = 0
              /\ batches_done = NumBatches
              /\ optimizer_steps = NumBatches
       /\ Validating => theta' = theta /\ grads' = grads
                           /\ optimizer_steps' = optimizer_steps
                           /\ backward_passes' = backward_passes
       /\ pc' = "epoch_end" =>
              /\ optimizer_steps' = NumBatches
              /\ backward_passes' = NumBatches
              /\ scheduler_steps' = 1
              /\ batches_done' = 2 * NumBatches]_vars

\* an epoch with an adapter has ended with parameters its optimizer steps have
\* changed, after a last validation batch with an intervention
C26_Witness ==
    /\ pc = "epoch_end"
    /\ model_type = "MultiLSTM"
    /\ adapter = "loaded"
    /\ theta = InitialTheta + NumBatches
    /\ optimizer_steps = NumBatches
    /\ scheduler_steps = 1
    /\ Len(forward_calls) = 2
    /\ loss_at = << theta >>

\* the model input x the replay of compute_loss builds, [row][timestep]
ReplayInput ==
    ModelInput(input_format, Stack(all_inputs), Stack(all_masks),
               Stack(all_original_predictions))

\* the model input x the simulation built at its t-th forward step, by row
SimulationInput(t) ==
    LET x == ModelInput(input_format, Unsqueeze(forward_calls[t].inputs),
                        Unsqueeze(forward_calls[t].mask),
                        Unsqueeze(forward_calls[t].original))
    IN  [b \in DOMAIN x |-> x[b][1]]

\* compute_loss has replayed the trajectory
Replayed == replay_out # << >>

\* the replay was given, at every timestep, the input and the mask of the
\* simulation's forward step
C27_SameInputs ==
    Replayed =>
        /\ Len(forward_calls) = Len(all_inputs)
        /\ \A t \in DOMAIN forward_calls : \A b \in DOMAIN replay_out :
              /\ ReplayInput[b][t] = SimulationInput(t)[b]
              /\ Stack(all_masks)[b][t] = forward_calls[t].mask[b]

(* C27: for LSTM and MultiLSTM and both input formats the replay in            *)
(* compute_loss is given, at each of the T+1 timesteps, the model input and    *)
(* the mask the simulation gave its forward step, and with the parameters      *)
(* unchanged its output at each timestep is the simulation's.                  *)
C27_ReplayConsistency ==
    /\ C27_SameInputs
    /\ Replayed =>
          \A t \in DOMAIN forward_calls : \A b \in DOMAIN replay_out :
              replay_out[b][t] = forward_calls[t].out[b]

(* C28: a call of sample_trajectory with an LSTM or MultiLSTM corrector leaves *)
(* the caller's predicted-concepts and ground-truth tensors as they were, and  *)
(* the original predictions of every snapshot are the concepts passed in.      *)
C28_CallerInputsKept ==
    [][Trainable =>
          /\ predicted_concepts' = predicted_concepts
          /\ groundtruth_concepts' = groundtruth_concepts
          /\ \A t \in DOMAIN all_original_predictions' :
                all_original_predictions'[t] = predicted_concepts']_vars

\* a finished call whose interventions changed the local concepts
C28_Witness ==
    /\ Trainable
    /\ pc = "done"
    /\ step >= 2
    /\ all_inputs[2] # forward_calls[1].out
    /\ all_inputs[3] # forward_calls[2].out
    /\ all_inputs[2] # predicted_concepts
    /\ all_original_predictions[3] = predicted_concepts

(* C29: in MultiLSTM forward a concept whose concept_to_cluster entry is not   *)
(* in 0 .. m_clusters - 1 is in no cluster's index list; forward returns, and  *)
(* the concept's output is 0 whatever its input, mask bit and original         *)
(* prediction are, while every other concept is written by its cluster.        *)
C29_OutOfRangeDropped ==
    /\ \A i \in Idx : concept_to_cluster[i] \notin ClusterIds =>
          \A c \in ClusterIds : \A j \in DOMAIN ClusterConceptIndices(concept_to_cluster, c) :
              ClusterConceptIndices(concept_to_cluster, c)[j] # i
    /\ pc = "forward_returned" =>
          /\ Len(out[1]) = NumConcepts
          /\ \A i \in Idx : concept_to_cluster[i] \notin ClusterIds => out[1][i] = 0

\* a returned call where a concept with an out-of-range id is masked with
\* ground truth 1 and has a non-zero original prediction, next to a concept of
\* a cluster in range whose output is not 0
C29_Witness ==
    /\ pc = "forward_returned"
    /\ concept_to_cluster[1] = NumClusters
    /\ concept_to_cluster[2] \in ClusterIds
    /\ already_intervened_concepts[1][1] = 1
    /\ concepts[1][1] = Scale
    /\ original_predictions[1][1] # 0
    /\ out[1][1] = 0
    /\ out[1][2] # 0
====
